---- MODULE Spec2Model ----
(***************************************************************************)
(* A model of nameko_pymemcache.Memcached, the nameko DependencyProvider   *)
(* that builds one pymemcache HashClient per worker context.               *)
(*                                                                         *)
(* Strings are sequences of one-character strings over Alphabet, so that   *)
(* uri.rsplit(':', 1) and int(port) are computed, not assumed.             *)
(***************************************************************************)
EXTENDS Integers, Sequences, FiniteSets, TLC

VARIABLES
    config,       \* container.config['MEMCACHED_URIS']: a sequence of strings
    configAuth,   \* container.config's MEMCACHED_USER and MEMCACHED_PASSWORD
    options,      \* self.options: the keyword arguments of Memcached(**options)
    user,         \* self.user
    password,     \* self.password
    stopped,      \* TRUE once the container has stopped the provider
    configured,   \* TRUE once setup() has run (self.uris exists)
    uris,         \* self.uris
    clients,      \* self.clients: the WeakKeyDictionary, worker_ctx -> client id
    reclaimed,    \* worker contexts the garbage collector has reclaimed
    built,        \* the HashClient objects built so far; a client's id is its index
    methodCalls,  \* per client: how often worker_teardown invoked quit() and disconnect_all()
    last,         \* the most recent call: its operation, argument and outcome
    store,        \* per cache node: the value stored under each key
    down,         \* the cache nodes that are unreachable
    conns,        \* <<client, node>>: the client holds a connection to the node
    result,       \* the keys and the result of the most recent cache operation
    sent,         \* the key -> value (or delta) arguments of the most recent cache write
    routing,      \* where the most recent cache operation was dispatched
    noNode,       \* the clients whose routing has failed with NoAvailableNode
    now,          \* the clock the dead windows are measured against
    dead,         \* <<client, node, until>>: the client's ring has the node dead until then
    closeCalls,   \* per connection: the close() calls of the most recent disconnect_all
    latest,       \* per key: the value of its most recent successful write, or Absent
    pending,      \* per worker: the request it has sent and awaits the response to
    wire,         \* per socket: the requests and the responses in flight on it
    stalled       \* the cache nodes that accept requests and do not answer

vars == <<config, configAuth, options, user, password, stopped, configured, uris,
          clients, reclaimed, built, methodCalls, last, store, down, conns, result,
          sent, routing, noNode, now, dead, closeCalls, latest, pending, wire, stalled>>

\* The cache cluster and the use the workers make of their clients.
cacheVars == <<store, down, conns, result, sent, routing, noNode, now, dead, closeCalls,
               latest, pending, wire, stalled>>

\* The rings' dead windows, the connections' close() calls and the requests
\* in flight, which no cache operation that runs in one step touches.
ringVars == <<now, dead, closeCalls, pending, wire, stalled>>

----------------------------------------------------------------------------
(* Bounds *)

\* get_dependency / _get_client build at most this many clients in a run.
MaxClients == 3

\* A URI list of n strings is drawn with every string of at most
\* MaxInputSize - n characters.
MaxInputSize == 4

\* The worker contexts nameko hands to get_dependency and worker_teardown.
Workers == {"w1", "w2"}

\* The characters address strings are made of: a host letter, the separator,
\* two digits and the sign.
Alphabet == {"h", ":", "0", "1", "-"}

\* The counters of the workers stay within 0 .. MaxCount.
MaxCount == 3

\* incr and decr are called with a delta of 1 .. MaxDelta.
MaxDelta == 2

\* The clock runs from 0 to MaxTime, and a node is marked dead for a window
\* of 1 .. MaxWindow.
MaxTime == 3
MaxWindow == 2

----------------------------------------------------------------------------
(* Program constants *)

DefaultPort == 11211

NoClient == 0          \* None, as a client id
NoWorker == "none"     \* the call had no worker context argument

----------------------------------------------------------------------------
(* Strings *)

Range(s) == {s[i] : i \in DOMAIN s}

Strs(n) == UNION {[1..k -> Alphabet] : k \in 0..n}

Digits == {"0", "1"}

DigitValue(d) == IF d = "1" THEN 1 ELSE 0

\* The digits of an int() literal: the string without its leading sign.
Unsigned(s) == IF s # <<>> /\ s[1] = "-" THEN Tail(s) ELSE s

\* int(s) succeeds: an optional sign followed by at least one digit.
IsIntLiteral(s) ==
    /\ Unsigned(s) # <<>>
    /\ \A i \in DOMAIN Unsigned(s) : Unsigned(s)[i] \in Digits

RECURSIVE DecimalValue(_)
DecimalValue(ds) ==
    IF ds = <<>> THEN 0
    ELSE 10 * DecimalValue(SubSeq(ds, 1, Len(ds) - 1)) + DigitValue(ds[Len(ds)])

\* int(s) for a string on which it succeeds.
IntValue(s) ==
    IF s # <<>> /\ s[1] = "-" THEN 0 - DecimalValue(Tail(s)) ELSE DecimalValue(s)

\* The index of the last occurrence of ch in s[1..i], 0 when there is none.
RECURSIVE LastIndexOf(_, _, _)
LastIndexOf(s, ch, i) ==
    IF i = 0 THEN 0
    ELSE IF s[i] = ch THEN i
    ELSE LastIndexOf(s, ch, i - 1)

\* The index of the first occurrence of ch in s[i..], 0 when there is none.
RECURSIVE FirstIndexOf(_, _, _)
FirstIndexOf(s, ch, i) ==
    IF i > Len(s) THEN 0
    ELSE IF s[i] = ch THEN i
    ELSE FirstIndexOf(s, ch, i + 1)

----------------------------------------------------------------------------
(* _get_client: the address parser *)

Parsed(h, p) == [ok |-> TRUE, host |-> h, port |-> p]
ValueError == [ok |-> FALSE, host |-> <<>>, port |-> 0]

\* RSplitPort with the fields taken from the left: uri.split(':')[0] and [1].
RSplitPort_LeftFields(uri) ==
    LET k == FirstIndexOf(uri, ":", 1)
        k2 == FirstIndexOf(uri, ":", k + 1)
        portStr == SubSeq(uri, k + 1, IF k2 = 0 THEN Len(uri) ELSE k2 - 1)
    IN  IF IsIntLiteral(portStr)
        THEN Parsed(SubSeq(uri, 1, k - 1), IntValue(portStr))
        ELSE ValueError

\* RSplitPort falling back to the default port when int(port) fails.
RSplitPort_DefaultOnBadPort(uri) ==
    LET k == LastIndexOf(uri, ":", Len(uri))
        portStr == SubSeq(uri, k + 1, Len(uri))
    IN  IF IsIntLiteral(portStr)
        THEN Parsed(SubSeq(uri, 1, k - 1), IntValue(portStr))
        ELSE Parsed(SubSeq(uri, 1, k - 1), DefaultPort)

\* host, port = uri.rsplit(':', 1); port = int(port)
RSplitPort(uri) ==
    LET k == LastIndexOf(uri, ":", Len(uri))
        portStr == SubSeq(uri, k + 1, Len(uri))
    IN  IF IsIntLiteral(portStr)
        THEN Parsed(SubSeq(uri, 1, k - 1), IntValue(portStr))
        ELSE ValueError

\* ParseUri rejecting the empty string.
ParseUri_RejectEmpty(uri) ==
    IF uri = <<>> THEN ValueError
    ELSE IF ":" \in Range(uri)
    THEN RSplitPort(uri)
    ELSE Parsed(uri, DefaultPort)

\* The body of the loop over self.uris, for one uri.
ParseUri(uri) ==
    IF ":" \in Range(uri)
    THEN RSplitPort(uri)
    ELSE Parsed(uri, DefaultPort)

\* ParseServers with servers.insert(0, (host, port)) for servers.append.
RECURSIVE ParseServers_Prepend(_, _)
ParseServers_Prepend(us, servers) ==
    IF us = <<>> THEN [raised |-> FALSE, servers |-> servers]
    ELSE LET p == ParseUri(Head(us))
         IN  IF ~p.ok THEN [raised |-> TRUE, servers |-> <<>>]
             ELSE ParseServers_Prepend(Tail(us), <<<<p.host, p.port>>>> \o servers)

\* The loop over self.uris: servers.append((host, port)) for each uri, in
\* order; the first int() that fails ends the loop with a ValueError.
RECURSIVE ParseServers(_, _)
ParseServers(us, servers) ==
    IF us = <<>> THEN [raised |-> FALSE, servers |-> servers]
    ELSE LET p == ParseUri(Head(us))
         IN  IF ~p.ok THEN [raised |-> TRUE, servers |-> <<>>]
             ELSE ParseServers(Tail(us), Append(servers, <<p.host, p.port>>))

----------------------------------------------------------------------------
(* The provider *)

Call(op, w, outcome, exc, ret) ==
    [op |-> op, w |-> w, outcome |-> outcome, exc |-> exc, ret |-> ret]

\* None, and an attribute that has not been assigned yet.
None == "None"
Unset == "unset"

\* config.get('MEMCACHED_USER', None), config.get('MEMCACHED_PASSWORD', None)
NoAuth == [user |-> None, password |-> None]

ConfigAuths ==
    { NoAuth,
      [user |-> "testuser", password |-> "testpass"],
      [user |-> "testuser", password |-> None] }

\* Memcached(): no keyword arguments.
NoOptions == <<>>

\* The keyword arguments the provider is declared with: none, one that
\* overrides a default, and a default overridden next to a key that is no
\* default.
OptionChoices ==
    { NoOptions,
      [ignore_exc |-> "False"],
      [timeout |-> "1.0", max_pool_size |-> "4"] }

\* DefaultOptions with 'ignore_exc': False.
DefaultOptions_NoSuppress ==
    [ serializer |-> "python_memcache_serializer",
      deserializer |-> "python_memcache_deserializer",
      connect_timeout |-> "0.05",
      timeout |-> "0.05",
      no_delay |-> "True",
      ignore_exc |-> "False",
      retry_attempts |-> "1",
      dead_timeout |-> "5",
      use_pooling |-> "True" ]

\* DefaultOptions without the 'connect_timeout' and 'timeout' entries.
DefaultOptions_NoTimeouts ==
    [ serializer |-> "python_memcache_serializer",
      deserializer |-> "python_memcache_deserializer",
      no_delay |-> "True",
      ignore_exc |-> "True",
      retry_attempts |-> "1",
      dead_timeout |-> "5",
      use_pooling |-> "True" ]

\* DefaultOptions without the 'deserializer' entry.
DefaultOptions_NoDeserializer ==
    [ serializer |-> "python_memcache_serializer",
      connect_timeout |-> "0.05",
      timeout |-> "0.05",
      no_delay |-> "True",
      ignore_exc |-> "True",
      retry_attempts |-> "1",
      dead_timeout |-> "5",
      use_pooling |-> "True" ]

\* client_options as the literal of lines 57-67.
DefaultOptions ==
    [ serializer |-> "python_memcache_serializer",
      deserializer |-> "python_memcache_deserializer",
      connect_timeout |-> "0.05",
      timeout |-> "0.05",
      no_delay |-> "True",
      ignore_exc |-> "True",
      retry_attempts |-> "1",
      dead_timeout |-> "5",
      use_pooling |-> "True" ]

\* u.update(d): the defaults written over the caller's options.
Update_DefaultsWin(d, u) ==
    [k \in (DOMAIN d) \cup (DOMAIN u) |-> IF k \in DOMAIN d THEN d[k] ELSE u[k]]

\* d.update(u)
Update(d, u) ==
    [k \in (DOMAIN d) \cup (DOMAIN u) |-> IF k \in DOMAIN u THEN u[k] ELSE d[k]]

\* ClientOptions with the credentials handed to the client when both are set.
ClientOptions_WithCredentials ==
    LET merged == Update(DefaultOptions, options)
    IN  IF user # None /\ password # None
        THEN Update(merged, [username |-> user, password |-> password])
        ELSE merged

\* client_options after client_options.update(self.options), and after the
\* branch on self.user and self.password, which changes nothing.
ClientOptions ==
    LET merged == Update(DefaultOptions, options)
    IN  IF user # None /\ password # None THEN merged ELSE merged

\* The hash ring: RingSize positions, each node at Replicas of them.
RingSize == 8
Replicas == 2

\* The position of a key on the ring.
KeyHash(k) == IF k = "a" THEN 3 ELSE 4

\* The position of the r-th point of a node: a hash of its address and r.
NodePoint(server, r) == (2 * server[2] + 3 * r + Len(server[1])) % RingSize

\* The ring of a server list: the points of each node.
Ring(servers) ==
    [n \in DOMAIN servers |-> {NodePoint(servers[n], r) : r \in 0..(Replicas - 1)}]

\* The live nodes with a point at position p.
Owners(ring, live, p) == {n \in live : p \in ring[n]}

\* RouteHash by naive modulo hashing: the (h mod N)-th of the N live nodes.
RouteHash_Modulo(ring, live, h) ==
    CHOOSE n \in live : Cardinality({m \in live : m < n}) = h % Cardinality(live)

\* route(key), for a key at position h: the live node that owns the next
\* point clockwise, wrapping at the end of the ring; of two nodes at one
\* point, the first configured.
RECURSIVE RouteHash(_, _, _)
RouteHash(ring, live, h) ==
    LET here == Owners(ring, live, h)
    IN  IF here # {}
        THEN CHOOSE n \in here : \A m \in here : n <= m
        ELSE RouteHash(ring, live, (h + 1) % RingSize)

NoCalls == [quit |-> 0, disconnect_all |-> 0]

\* HashClient(servers, **client_options), which places the servers on its
\* ring; w is the worker context it is built for.
NewClient(servers, opts, w) ==
    [servers |-> servers, options |-> opts, owner |-> w, ring |-> Ring(servers)]

\* The keys and values the workers use. A Python value is named by its
\* repr: "1" is the int 1, "False" the boolean false, "''" the empty string.
Keys == {"a", "b"}
Values == {"1", "False"}
Absent == "absent"

\* The ints the counters take: 0 .. MaxCount.
Ints == {ToString(i) : i \in 0..MaxCount}

EmptyText == "''"
UnicodeText == "'u-umlaut'"
Texts == {EmptyText, UnicodeText}

\* A nested composite structure.
Composite == "{'k': [1, None]}"

PyValues == {None, "True", "False"} \cup Ints \cup Texts \cup {Composite}

\* type(value)
TypeOf(v) ==
    IF v = None THEN "NoneType"
    ELSE IF v \in {"True", "False"} THEN "bool"
    ELSE IF v \in Ints THEN "int"
    ELSE IF v \in Texts THEN "str"
    ELSE "dict"

\* value.encode('utf8') and its inverse, on the strings of the model.
Utf8(t) == IF t = UnicodeText THEN "c3 bc" ELSE ""
Decode(d) == CHOOSE t \in Texts : Utf8(t) = d

\* pickle.dumps(value) and pickle.loads(data)
Pickle(v) == "pickle(" \o v \o ")"
Unpickle(d) == CHOOSE v \in PyValues : Pickle(v) = d

\* The flags of pymemcache.serde
FLAG_BYTES == 0
FLAG_PICKLE == 1
FLAG_INTEGER == 2
FLAG_TEXT == 16

\* What a node stores under a key: the flags and the bytes of the value.
Item(flags, data) == [present |-> TRUE, flags |-> flags, data |-> data]
NoItem == [present |-> FALSE, flags |-> FLAG_BYTES, data |-> ""]

\* python_memcache_serializer(key, value): text is encoded, an int is
\* written in decimal, every other value is pickled.
python_memcache_serializer(v) ==
    IF TypeOf(v) = "str" THEN Item(FLAG_TEXT, Utf8(v))
    ELSE IF TypeOf(v) = "int" THEN Item(FLAG_INTEGER, v)
    ELSE Item(FLAG_PICKLE, Pickle(v))

\* The bytes as they are: what a client without a deserializer returns.
RawBytes(item) == "b'" \o item.data \o "'"

\* python_memcache_deserializer(key, value, flags)
python_memcache_deserializer(item) ==
    IF item.flags = FLAG_BYTES THEN RawBytes(item)
    ELSE IF item.flags = FLAG_TEXT THEN Decode(item.data)
    ELSE IF item.flags = FLAG_INTEGER THEN item.data
    ELSE Unpickle(item.data)

Result(ks, v) == [keys |-> ks, value |-> v]
NoResult == Result({}, None)

\* Where a cache operation was dispatched: the nodes it went to, or the
\* error of the routing.
NoError == "none"
Routing(nodes, error) == [nodes |-> nodes, error |-> error]
NoRouting == Routing({}, NoError)

InitWith(cfgs, auths, opts) ==
    /\ config \in cfgs
    /\ configAuth \in auths
    /\ options \in opts
    /\ user = Unset
    /\ password = Unset
    /\ stopped = FALSE
    /\ store = [n \in DOMAIN config |-> [k \in Keys |-> NoItem]]
    /\ down = {}
    /\ conns = {}
    /\ result = NoResult
    /\ sent = <<>>
    /\ routing = NoRouting
    /\ noNode = {}
    /\ now = 0
    /\ dead = {}
    /\ closeCalls = <<>>
    /\ latest = [k \in Keys |-> Absent]
    /\ pending = <<>>
    /\ wire = <<>>
    /\ stalled = {}
    /\ configured = FALSE
    /\ uris = <<>>
    /\ clients = <<>>
    /\ reclaimed = {}
    /\ built = <<>>
    /\ methodCalls = <<>>
    /\ last = Call("__init__", NoWorker, "returned", "none", NoClient)

\* The MEMCACHED_URIS lists the provider is run with.
Configs ==
    { <<>>,
      << <<"h", ":", "1">> >>,
      << <<"h">>, <<"h", ":", "1", "0">> >>,
      << <<"h", ":", "h">> >> }

Init == InitWith(Configs, ConfigAuths, OptionChoices)

\* setup(): reads the configuration; nameko calls it once, at container start.
setup ==
    /\ ~configured
    /\ configured' = TRUE
    /\ uris' = config
    /\ user' = configAuth.user
    /\ password' = configAuth.password
    /\ last' = Call("setup", NoWorker, "returned", "none", NoClient)
    /\ UNCHANGED cacheVars
    /\ UNCHANGED <<config, configAuth, options, stopped, clients, reclaimed, built, methodCalls>>

\* _get_client with self.uris read as an empty list while setup has not run.
_get_client_DefaultUris ==
    IF ~configured
    THEN [exc |-> "none", servers |-> <<>>, options |-> ClientOptions]
    ELSE LET r == ParseServers(uris, <<>>)
         IN  IF r.raised
             THEN [exc |-> "ValueError", servers |-> <<>>, options |-> <<>>]
             ELSE [exc |-> "none", servers |-> r.servers, options |-> ClientOptions]

\* _get_client() called for worker context w (NoWorker: called directly).
\* Its result: the id of the client built, or the error raised.
_get_client ==
    IF ~configured
    THEN [exc |-> "AttributeError", servers |-> <<>>, options |-> <<>>]
    ELSE LET r == ParseServers(uris, <<>>)
         IN  IF r.raised
             THEN [exc |-> "ValueError", servers |-> <<>>, options |-> <<>>]
             ELSE [exc |-> "none", servers |-> r.servers, options |-> ClientOptions]

\* get_dependency with the defaults merged into self.options itself.
get_dependency_MergeInPlace(w) ==
    /\ w \in Workers \ reclaimed
    /\ Len(built) < MaxClients
    /\ LET r == _get_client
           c == Len(built) + 1
       IN  IF r.exc # "none"
           THEN /\ last' = Call("get_dependency", w, "raised", r.exc, NoClient)
                /\ UNCHANGED <<clients, built, methodCalls, options>>
           ELSE /\ built' = Append(built, NewClient(r.servers, r.options, w))
                /\ methodCalls' = Append(methodCalls, NoCalls)
                /\ clients' = (w :> c) @@ clients
                /\ options' = r.options
                /\ last' = Call("get_dependency", w, "returned", "none", c)
    /\ UNCHANGED cacheVars
    /\ UNCHANGED <<config, configAuth, user, password, stopped, configured, uris, reclaimed>>

\* get_dependency with the worker context entered in self.clients before
\* the client is built.
get_dependency_BindFirst(w) ==
    /\ w \in Workers \ reclaimed
    /\ Len(built) < MaxClients
    /\ LET r == _get_client
           c == Len(built) + 1
       IN  IF r.exc # "none"
           THEN /\ clients' = (w :> NoClient) @@ clients
                /\ last' = Call("get_dependency", w, "raised", r.exc, NoClient)
                /\ UNCHANGED <<built, methodCalls>>
           ELSE /\ built' = Append(built, NewClient(r.servers, r.options, w))
                /\ methodCalls' = Append(methodCalls, NoCalls)
                /\ clients' = (w :> c) @@ clients
                /\ last' = Call("get_dependency", w, "returned", "none", c)
    /\ UNCHANGED cacheVars
    /\ UNCHANGED <<config, configAuth, options, user, password, stopped, configured, uris, reclaimed>>

\* get_dependency handing every worker the client built first.
get_dependency_Shared(w) ==
    /\ w \in Workers \ reclaimed
    /\ Len(built) < MaxClients
    /\ LET r == _get_client
       IN  IF r.exc # "none"
           THEN /\ last' = Call("get_dependency", w, "raised", r.exc, NoClient)
                /\ UNCHANGED <<clients, built, methodCalls>>
           ELSE IF built # <<>>
           THEN /\ clients' = (w :> 1) @@ clients
                /\ last' = Call("get_dependency", w, "returned", "none", 1)
                /\ UNCHANGED <<built, methodCalls>>
           ELSE /\ built' = Append(built, NewClient(r.servers, r.options, w))
                /\ methodCalls' = Append(methodCalls, NoCalls)
                /\ clients' = (w :> 1) @@ clients
                /\ last' = Call("get_dependency", w, "returned", "none", 1)
    /\ UNCHANGED cacheVars
    /\ UNCHANGED <<config, configAuth, options, user, password, stopped, configured, uris, reclaimed>>

\* get_dependency without self.clients[worker_ctx] = client.
get_dependency_Unbound(w) ==
    /\ w \in Workers \ reclaimed
    /\ Len(built) < MaxClients
    /\ LET r == _get_client
           c == Len(built) + 1
       IN  IF r.exc # "none"
           THEN /\ last' = Call("get_dependency", w, "raised", r.exc, NoClient)
                /\ UNCHANGED <<clients, built, methodCalls>>
           ELSE /\ built' = Append(built, NewClient(r.servers, r.options, w))
                /\ methodCalls' = Append(methodCalls, NoCalls)
                /\ clients' = clients
                /\ last' = Call("get_dependency", w, "returned", "none", c)
    /\ UNCHANGED cacheVars
    /\ UNCHANGED <<config, configAuth, options, user, password, stopped, configured, uris, reclaimed>>

\* get_dependency connecting to every server as it builds the client: an
\* unreachable server makes it raise.
get_dependency_Eager(w) ==
    /\ w \in Workers \ reclaimed
    /\ Len(built) < MaxClients
    /\ LET r == _get_client
           c == Len(built) + 1
           nodes == DOMAIN r.servers
       IN  IF r.exc # "none"
           THEN /\ last' = Call("get_dependency", w, "raised", r.exc, NoClient)
                /\ UNCHANGED <<clients, built, methodCalls, conns>>
           ELSE IF nodes \cap down # {}
           THEN /\ last' = Call("get_dependency", w, "raised", "TransportError", NoClient)
                /\ UNCHANGED <<clients, built, methodCalls, conns>>
           ELSE /\ built' = Append(built, NewClient(r.servers, r.options, w))
                /\ methodCalls' = Append(methodCalls, NoCalls)
                /\ clients' = (w :> c) @@ clients
                /\ conns' = conns \cup {<<c, n>> : n \in nodes}
                /\ last' = Call("get_dependency", w, "returned", "none", c)
    /\ UNCHANGED <<store, down, result, sent, routing, noNode, now, dead, closeCalls,
                   latest, pending, wire, stalled>>
    /\ UNCHANGED <<config, configAuth, options, user, password, stopped, configured, uris, reclaimed>>

\* get_dependency(worker_ctx)
get_dependency(w) ==
    /\ w \in Workers \ reclaimed
    /\ Len(built) < MaxClients
    /\ LET r == _get_client
           c == Len(built) + 1
       IN  IF r.exc # "none"
           THEN /\ last' = Call("get_dependency", w, "raised", r.exc, NoClient)
                /\ UNCHANGED <<clients, built, methodCalls>>
           ELSE /\ built' = Append(built, NewClient(r.servers, r.options, w))
                /\ methodCalls' = Append(methodCalls, NoCalls)
                /\ clients' = (w :> c) @@ clients
                /\ last' = Call("get_dependency", w, "returned", "none", c)
    /\ UNCHANGED cacheVars
    /\ UNCHANGED <<config, configAuth, options, user, password, stopped, configured, uris, reclaimed>>

\* self.clients.pop(worker_ctx, None), and the entry of a reclaimed key vanishing
Pop(d, w) == [x \in (DOMAIN d) \ {w} |-> d[x]]

\* worker_teardown with quit() invoked before the entry is removed: when
\* quit() raises, the entry stays.
worker_teardown_QuitFirst(w, quitRaises) ==
    /\ w \in Workers \ reclaimed
    /\ LET client == IF w \in DOMAIN clients THEN clients[w] ELSE NoClient
       IN  /\ clients' = IF quitRaises THEN clients ELSE Pop(clients, w)
           /\ IF client # NoClient
              THEN /\ methodCalls' =
                        [methodCalls EXCEPT ![client].quit = @ + 1]
                   /\ last' = IF quitRaises
                              THEN Call("worker_teardown", w, "raised", "quit", client)
                              ELSE Call("worker_teardown", w, "returned", "none", client)
              ELSE /\ ~quitRaises
                   /\ methodCalls' = methodCalls
                   /\ last' = Call("worker_teardown", w, "returned", "none", NoClient)
    /\ UNCHANGED cacheVars
    /\ UNCHANGED <<config, configAuth, options, user, password, stopped, configured, uris, reclaimed, built>>

\* worker_teardown with self.clients.get(worker_ctx) for pop(worker_ctx, None).
worker_teardown_Get(w, quitRaises) ==
    /\ w \in Workers \ reclaimed
    /\ LET client == IF w \in DOMAIN clients THEN clients[w] ELSE NoClient
       IN  /\ clients' = clients
           /\ IF client # NoClient
              THEN /\ methodCalls' =
                        [methodCalls EXCEPT ![client].quit = @ + 1]
                   /\ last' = IF quitRaises
                              THEN Call("worker_teardown", w, "raised", "quit", client)
                              ELSE Call("worker_teardown", w, "returned", "none", client)
              ELSE /\ ~quitRaises
                   /\ methodCalls' = methodCalls
                   /\ last' = Call("worker_teardown", w, "returned", "none", NoClient)
    /\ UNCHANGED cacheVars
    /\ UNCHANGED <<config, configAuth, options, user, password, stopped, configured, uris, reclaimed, built>>

\* worker_teardown with self.clients.pop(worker_ctx): no default, a KeyError
\* when the worker context has no entry.
worker_teardown_PopNoDefault(w, quitRaises) ==
    /\ w \in Workers \ reclaimed
    /\ LET client == IF w \in DOMAIN clients THEN clients[w] ELSE NoClient
       IN  /\ clients' = Pop(clients, w)
           /\ IF client # NoClient
              THEN /\ methodCalls' =
                        [methodCalls EXCEPT ![client].quit = @ + 1]
                   /\ last' = IF quitRaises
                              THEN Call("worker_teardown", w, "raised", "quit", client)
                              ELSE Call("worker_teardown", w, "returned", "none", client)
              ELSE /\ ~quitRaises
                   /\ methodCalls' = methodCalls
                   /\ last' = Call("worker_teardown", w, "raised", "KeyError", NoClient)
    /\ UNCHANGED cacheVars
    /\ UNCHANGED <<config, configAuth, options, user, password, stopped, configured, uris, reclaimed, built>>

\* worker_teardown(worker_ctx); quitRaises: whether client.quit() raises.
worker_teardown(w, quitRaises) ==
    /\ w \in Workers \ reclaimed
    /\ LET client == IF w \in DOMAIN clients THEN clients[w] ELSE NoClient
       IN  /\ clients' = Pop(clients, w)
           /\ IF client # NoClient
              THEN /\ methodCalls' =
                        [methodCalls EXCEPT ![client].quit = @ + 1]
                   /\ last' = IF quitRaises
                              THEN Call("worker_teardown", w, "raised", "quit", client)
                              ELSE Call("worker_teardown", w, "returned", "none", client)
              ELSE /\ ~quitRaises
                   /\ methodCalls' = methodCalls
                   /\ last' = Call("worker_teardown", w, "returned", "none", NoClient)
    /\ UNCHANGED cacheVars
    /\ UNCHANGED <<config, configAuth, options, user, password, stopped, configured, uris, reclaimed, built>>

\* Reclaim with self.clients a plain dict: the entry outlives its key.
Reclaim_Strong(w) ==
    /\ w \in Workers \ reclaimed
    /\ reclaimed' = reclaimed \cup {w}
    /\ clients' = clients
    /\ last' = Call("reclaim", w, "returned", "none", NoClient)
    /\ UNCHANGED cacheVars
    /\ UNCHANGED <<config, configAuth, options, user, password, stopped, configured, uris, built, methodCalls>>

\* The worker context is garbage collected: the WeakKeyDictionary drops its
\* entry, and no later call can name it.
Reclaim(w) ==
    /\ w \in Workers \ reclaimed
    /\ reclaimed' = reclaimed \cup {w}
    /\ clients' = Pop(clients, w)
    /\ last' = Call("reclaim", w, "returned", "none", NoClient)
    /\ UNCHANGED cacheVars
    /\ UNCHANGED <<config, configAuth, options, user, password, stopped, configured, uris, built, methodCalls>>

\* The container stops the provider. Memcached overrides neither stop() nor
\* kill(): the provider's own state stays as it is, and nothing in
\* get_dependency or worker_teardown reads that the container has stopped.
stop ==
    /\ configured
    /\ ~stopped
    /\ stopped' = TRUE
    /\ last' = Call("stop", NoWorker, "returned", "none", NoClient)
    /\ UNCHANGED cacheVars
    /\ UNCHANGED <<config, configAuth, options, user, password, configured, uris,
                   clients, reclaimed, built, methodCalls>>

\* A direct call of _get_client(), bound to no worker context (as the tests
\* make it).
call_get_client ==
    /\ Len(built) < MaxClients
    /\ LET r == _get_client
           c == Len(built) + 1
       IN  IF r.exc # "none"
           THEN /\ last' = Call("_get_client", NoWorker, "raised", r.exc, NoClient)
                /\ UNCHANGED <<built, methodCalls>>
           ELSE /\ built' = Append(built, NewClient(r.servers, r.options, NoWorker))
                /\ methodCalls' = Append(methodCalls, NoCalls)
                /\ last' = Call("_get_client", NoWorker, "returned", "none", c)
    /\ UNCHANGED cacheVars
    /\ UNCHANGED <<config, configAuth, options, user, password, stopped, configured, uris, clients, reclaimed>>

Next ==
    \/ setup
    \/ \E w \in Workers : get_dependency(w)
    \/ \E w \in Workers, quitRaises \in BOOLEAN : worker_teardown(w, quitRaises)
    \/ \E w \in Workers : Reclaim(w)
    \/ stop

Spec == Init /\ [][Next]_vars

----------------------------------------------------------------------------
(* The address parser on arbitrary input: every URI list within the bound   *)
(* is configured, set up and parsed by _get_client().                       *)

ParseInputs == UNION {[1..n -> Strs(MaxInputSize - n)] : n \in 0..MaxInputSize}

ParseInit == InitWith(ParseInputs, {NoAuth}, {NoOptions})

ParseNext ==
    \/ setup
    \/ call_get_client

ParseSpec == ParseInit /\ [][ParseNext]_vars

----------------------------------------------------------------------------
(* The clients in use: the cache operations a worker runs on the client     *)
(* get_dependency gave it, against a cluster whose nodes fail and recover.  *)

providerVars ==
    <<config, configAuth, options, user, password, stopped, configured, uris,
      clients, reclaimed, built, methodCalls>>

\* IsDead with a window that never ends.
IsDead_Forever(c, n) == \E d \in dead : d[1] = c /\ d[2] = n

\* IsDead with no node ever excluded.
IsDead_Never(c, n) == FALSE

\* The ring of client c has node n marked dead, and the deadline has not
\* passed.
IsDead(c, n) == \E d \in dead : d[1] = c /\ d[2] = n /\ now < d[3]

\* The live-node set of the ring of client c.
Live(c) == {n \in DOMAIN built[c].servers : ~IsDead(c, n)}

\* Available for a client that NoAvailableNode has broken for good.
Available_Fatal(c) == Live(c) # {} /\ c \notin noNode

\* The ring of client c has a node to route to.
Available(c) == Live(c) # {}

\* The node a client routes a key to: an index of its server list.
Route(c, k) == RouteHash(built[c].ring, Live(c), KeyHash(k))

\* The client was built with failure suppression on.
Suppresses(c) == built[c].options["ignore_exc"] = "True"

\* The serializer and the deserializer the client was built with; without
\* one, the bytes go out and come back as they are.
Serialize(c, v) ==
    IF /\ "serializer" \in DOMAIN built[c].options
       /\ built[c].options["serializer"] = "python_memcache_serializer"
    THEN python_memcache_serializer(v)
    ELSE Item(FLAG_BYTES, v)

Deserialize(c, item) ==
    IF /\ "deserializer" \in DOMAIN built[c].options
       /\ built[c].options["deserializer"] = "python_memcache_deserializer"
    THEN python_memcache_deserializer(item)
    ELSE RawBytes(item)

\* The keys ks of client c, routed: the nodes they go to, or NoAvailableNode
\* when the ring has no live node.
Dispatch(c, ks) ==
    IF ~Available(c)
    THEN Routing({}, "NoAvailableNode")
    ELSE Routing({Route(c, k) : k \in ks}, NoError)

\* The error a dispatched operation meets: that of the routing, or a
\* TransportError when a node it goes to is unreachable.
OpError(d) ==
    IF d.error # NoError THEN d.error
    ELSE IF d.nodes \cap down # {} THEN "TransportError"
    ELSE NoError

\* The outcome of a cache operation of client c: an error is raised only by
\* a client built with failure suppression off.
CacheCall(op, w, c, error) ==
    IF error # NoError /\ ~Suppresses(c)
    THEN Call(op, w, "raised", error, c)
    ELSE Call(op, w, "returned", "none", c)

\* What a cache operation hands back: nothing when it raises, onFailure when
\* the failure is suppressed, value otherwise.
CacheResult(c, ks, error, onFailure, value) ==
    IF error # NoError /\ ~Suppresses(c) THEN Result(ks, None)
    ELSE IF error # NoError THEN Result(ks, onFailure)
    ELSE Result(ks, value)

\* The clients that have met NoAvailableNode, after a dispatch of client c.
NoNodeAfter(c, d) ==
    IF d.error = "NoAvailableNode" THEN noNode \cup {c} ELSE noNode

\* The worker holds a client with at least one server.
InUse(w) == w \in DOMAIN clients /\ built[clients[w]].servers # <<>>

\* client.set(key, value)
cache_set(w, k, v) ==
    /\ InUse(w)
    /\ LET c == clients[w]
           d == Dispatch(c, {k})
           err == OpError(d)
       IN  /\ store' = IF err # NoError THEN store
                       ELSE [store EXCEPT ![Route(c, k)][k] = Serialize(c, v)]
           /\ latest' = IF err # NoError THEN latest ELSE [latest EXCEPT ![k] = v]
           /\ conns' = conns \cup {<<c, n>> : n \in d.nodes \ down}
           /\ result' = CacheResult(c, {k}, err, "False", "True")
           /\ sent' = (k :> v)
           /\ routing' = d
           /\ noNode' = NoNodeAfter(c, d)
           /\ last' = CacheCall("set", w, c, err)
    /\ UNCHANGED down
    /\ UNCHANGED ringVars
    /\ UNCHANGED providerVars

\* client.get(key)
cache_get(w, k) ==
    /\ InUse(w)
    /\ LET c == clients[w]
           d == Dispatch(c, {k})
           err == OpError(d)
           item == store[Route(c, k)][k]
           v == IF item = NoItem THEN None ELSE Deserialize(c, item)
       IN  /\ conns' = conns \cup {<<c, n>> : n \in d.nodes \ down}
           /\ result' = IF err # NoError
                        THEN CacheResult(c, {k}, err, None, None)
                        ELSE Result({k}, v)
           /\ sent' = <<>>
           /\ routing' = d
           /\ noNode' = NoNodeAfter(c, d)
           /\ last' = CacheCall("get", w, c, err)
    /\ UNCHANGED <<store, latest, down>>
    /\ UNCHANGED ringVars
    /\ UNCHANGED providerVars

\* client.delete(key)
cache_delete(w, k) ==
    /\ InUse(w)
    /\ LET c == clients[w]
           d == Dispatch(c, {k})
           err == OpError(d)
       IN  /\ store' = IF err # NoError THEN store
                       ELSE [store EXCEPT ![Route(c, k)][k] = NoItem]
           /\ latest' = IF err # NoError THEN latest ELSE [latest EXCEPT ![k] = Absent]
           /\ conns' = conns \cup {<<c, n>> : n \in d.nodes \ down}
           /\ result' = IF err # NoError
                        THEN CacheResult(c, {k}, err, "False", "False")
                        ELSE Result({k}, IF store[Route(c, k)][k] = NoItem
                                         THEN "False" ELSE "True")
           /\ sent' = <<>>
           /\ routing' = d
           /\ noNode' = NoNodeAfter(c, d)
           /\ last' = CacheCall("delete", w, c, err)
    /\ UNCHANGED down
    /\ UNCHANGED ringVars
    /\ UNCHANGED providerVars

\* The number a decimal string of the counters' range stands for.
IntOf(v) == CHOOSE i \in 0..(MaxCount + MaxDelta) : ToString(i) = v

\* Counted with the delta ignored: the counter moves by one.
Counted_IgnoreDelta(item, d) ==
    Item(item.flags, ToString(IntOf(item.data) + (IF d > 0 THEN 1 ELSE 0 - 1)))

\* The item a node holds after it has added d to the decimal number stored.
Counted(item, d) == Item(item.flags, ToString(IntOf(item.data) + d))

\* The node applies incr/decr to a key that holds a decimal number within
\* the counters' range; a key that is not stored is left alone.
Countable(item, d) ==
    \/ item = NoItem
    \/ /\ item.flags = FLAG_INTEGER
       /\ IntOf(item.data) + d \in 0..MaxCount

\* client.incr(key, d) for d > 0 and client.decr(key, -d) for d < 0: the
\* node changes the number in place and the client returns the new number,
\* or None when the key is not stored.
cache_count(op, w, k, d) ==
    /\ InUse(w)
    /\ LET c == clients[w]
           r == Dispatch(c, {k})
           err == OpError(r)
           item == store[Route(c, k)][k]
           hit == err = NoError /\ item # NoItem
       IN  /\ Countable(item, d)
           /\ store' = IF hit THEN [store EXCEPT ![Route(c, k)][k] = Counted(item, d)]
                       ELSE store
           /\ latest' = IF hit THEN [latest EXCEPT ![k] = Counted(item, d).data]
                        ELSE latest
           /\ conns' = conns \cup {<<c, n>> : n \in r.nodes \ down}
           /\ result' = IF err # NoError THEN CacheResult(c, {k}, err, None, None)
                        ELSE IF item = NoItem THEN Result({k}, None)
                        ELSE Result({k}, Counted(item, d).data)
           /\ sent' = (k :> ToString(IF d > 0 THEN d ELSE 0 - d))
           /\ routing' = r
           /\ noNode' = NoNodeAfter(c, r)
           /\ last' = CacheCall(op, w, c, err)
    /\ UNCHANGED down
    /\ UNCHANGED ringVars
    /\ UNCHANGED providerVars

cache_incr(w, k, d) == cache_count("incr", w, k, d)

cache_decr(w, k, d) == cache_count("decr", w, k, 0 - d)

\* GetManyFound without the filter on stored false values.
GetManyFound_KeepFalse(c, ks) ==
    {k \in ks : Route(c, k) \notin down /\ store[Route(c, k)][k] # NoItem}

\* The keys get_many returns: those on a reachable node that are present and
\* do not store a boolean false.
GetManyFound(c, ks) ==
    {k \in ks : /\ Route(c, k) \notin down
                /\ store[Route(c, k)][k] # NoItem
                /\ Deserialize(c, store[Route(c, k)][k]) # "False"}

\* client.get_many(keys): one batched request per node the keys are routed to.
cache_get_many(w, ks) ==
    /\ InUse(w)
    /\ ks # {}
    /\ LET c == clients[w]
           d == Dispatch(c, ks)
           err == OpError(d)
           found == [k \in GetManyFound(c, ks) |->
                        Deserialize(c, store[Route(c, k)][k])]
       IN  /\ conns' = conns \cup {<<c, n>> : n \in d.nodes \ down}
           /\ result' = IF d.error # NoError
                        THEN CacheResult(c, ks, err, <<>>, <<>>)
                        ELSE CacheResult(c, ks, err, found, found)
           /\ sent' = <<>>
           /\ routing' = d
           /\ noNode' = NoNodeAfter(c, d)
           /\ last' = CacheCall("get_many", w, c, err)
    /\ UNCHANGED <<store, latest, down>>
    /\ UNCHANGED ringVars
    /\ UNCHANGED providerVars

\* SetManyWritten with the writes rolled back when a partition fails.
SetManyWritten_Atomic(c, m) ==
    IF \E k \in DOMAIN m : Route(c, k) \in down
    THEN {}
    ELSE DOMAIN m

\* The keys set_many writes: those of the partitions whose node is reachable.
SetManyWritten(c, m) == {k \in DOMAIN m : Route(c, k) \notin down}

\* client.set_many(mapping): one batched write per node the keys are routed
\* to; true only when every partition was written.
cache_set_many(w, m) ==
    /\ InUse(w)
    /\ DOMAIN m # {}
    /\ LET c == clients[w]
           d == Dispatch(c, DOMAIN m)
           err == OpError(d)
           written == IF d.error # NoError THEN {} ELSE SetManyWritten(c, m)
       IN  /\ store' = [n \in DOMAIN store |-> [k \in Keys |->
                          IF k \in written /\ Route(c, k) = n
                          THEN Serialize(c, m[k])
                          ELSE store[n][k]]]
           /\ latest' = [k \in Keys |-> IF k \in written THEN m[k] ELSE latest[k]]
           /\ conns' = conns \cup {<<c, n>> : n \in d.nodes \ down}
           /\ result' = CacheResult(c, DOMAIN m, err, "False", "True")
           /\ sent' = m
           /\ routing' = d
           /\ noNode' = NoNodeAfter(c, d)
           /\ last' = CacheCall("set_many", w, c, err)
    /\ UNCHANGED down
    /\ UNCHANGED ringVars
    /\ UNCHANGED providerVars

\* The orders in which a loop can meet the elements of S.
Orders(S) == {f \in [1..Cardinality(S) -> S] : Range(f) = S}

\* Closed for a loop that the first close() to raise ends.
Closed_AbortOnRaise(order, raising) ==
    {order[i] : i \in {j \in DOMAIN order :
                        \A h \in 1..(j - 1) : order[h] \notin raising}}

\* The connections disconnect_all calls close() on, meeting them in the
\* given order, when close() raises on those in raising: all of them.
Closed(order, raising) == Range(order)

\* client.disconnect_all(): close() on every connection the client owns; the
\* failures are reported together once the loop is over.
disconnect_all(w, order, raising) ==
    /\ InUse(w)
    /\ LET c == clients[w]
           owned == {p \in conns : p[1] = c}
           closed == Closed(order, raising)
       IN  /\ order \in Orders(owned)
           /\ raising \subseteq owned
           /\ closeCalls' = [p \in owned |-> IF p \in closed THEN 1 ELSE 0]
           /\ conns' = conns \ closed
           /\ last' = Call("disconnect_all", w, "returned",
                           IF raising # {} THEN "CloseError" ELSE "none", c)
    /\ UNCHANGED <<store, latest, down, result, sent, routing, noNode, now, dead,
                   pending, wire, stalled>>
    /\ UNCHANGED providerVars

\* mark_dead(node, until = now + T) on the ring of the client of worker w:
\* the dead-timeout policy takes a live node out of routing for a window.
mark_dead(w, n, T) ==
    /\ InUse(w)
    /\ n \in Live(clients[w])
    /\ T \in 1..MaxWindow
    /\ dead' = {d \in dead : ~(d[1] = clients[w] /\ d[2] = n)}
                 \cup {<<clients[w], n, now + T>>}
    /\ last' = Call("mark_dead", w, "returned", "none", clients[w])
    /\ UNCHANGED <<store, latest, down, conns, result, sent, routing, noNode, now,
                   closeCalls, pending, wire, stalled>>
    /\ UNCHANGED providerVars

\* mark_alive(node) on the ring of the client of worker w.
mark_alive(w, n) ==
    /\ InUse(w)
    /\ \E d \in dead : d[1] = clients[w] /\ d[2] = n
    /\ dead' = {d \in dead : ~(d[1] = clients[w] /\ d[2] = n)}
    /\ last' = Call("mark_alive", w, "returned", "none", clients[w])
    /\ UNCHANGED <<store, latest, down, conns, result, sent, routing, noNode, now,
                   closeCalls, pending, wire, stalled>>
    /\ UNCHANGED providerVars

\* The request carries a timeout, and it has run out: the clock's unit is
\* the span of the provider's default timeouts.
Expired(p) == p.timeout # None /\ now >= p.since + 1

\* Time passes, up to the moment a timeout is due.
tick ==
    /\ now < MaxTime
    /\ \A w \in DOMAIN pending : ~Expired(pending[w])
    /\ now' = now + 1
    /\ last' = Call("tick", NoWorker, "returned", "none", NoClient)
    /\ UNCHANGED <<store, latest, down, conns, result, sent, routing, noNode, dead,
                   closeCalls, pending, wire, stalled>>
    /\ UNCHANGED providerVars

\* A node becomes unreachable: the connections to it are lost.
node_fail(n) ==
    /\ n \in (DOMAIN store) \ down
    /\ down' = down \cup {n}
    /\ conns' = {p \in conns : p[2] # n}
    /\ last' = Call("node_fail", NoWorker, "returned", "none", NoClient)
    /\ UNCHANGED <<store, latest, result, sent, routing, noNode>>
    /\ UNCHANGED ringVars
    /\ UNCHANGED providerVars

\* An unreachable node is reachable again.
node_recover(n) ==
    /\ n \in down
    /\ down' = down \ {n}
    /\ last' = Call("node_recover", NoWorker, "returned", "none", NoClient)
    /\ UNCHANGED <<store, latest, conns, result, sent, routing, noNode>>
    /\ UNCHANGED ringVars
    /\ UNCHANGED providerVars

\* The option a client was built with, or None for one it was built without.
OptionOf(c, name) ==
    IF name \in DOMAIN built[c].options THEN built[c].options[name] ELSE None

\* The socket an operation of worker w on client c uses to node n: a pooling
\* client hands every concurrent caller a socket of its own, a client
\* without a pool has one socket per node.
Socket(c, n, w) ==
    IF OptionOf(c, "use_pooling") = "True" THEN <<c, n, w>> ELSE <<c, n, NoWorker>>

\* The requests a socket carries to its node and the responses it carries
\* back, each in the order written.
EmptyQueue == [req |-> <<>>, rsp |-> <<>>]
Queue(sock) == IF sock \in DOMAIN wire THEN wire[sock] ELSE EmptyQueue
WireWith(sock, q) ==
    IF q = EmptyQueue
    THEN [s \in (DOMAIN wire) \ {sock} |-> wire[s]]
    ELSE (sock :> q) @@ wire

\* Each worker of the concurrent run uses a key and a value of its own.
OwnKey(w) == IF w = "w1" THEN "a" ELSE "b"
OwnValue(w) == IF w = "w1" THEN "1" ELSE "False"

\* A worker starts set, get or delete on its key: the client connects, under
\* the connect timeout, and once connected writes the request, under the
\* operation timeout.
wire_send(w, op) ==
    /\ InUse(w)
    /\ w \notin DOMAIN pending
    /\ LET c == clients[w]
           k == OwnKey(w)
           n == Route(c, k)
           connected == n \notin down
           req == [op |-> op, key |-> k, value |-> IF op = "set" THEN OwnValue(w) ELSE None,
                   item |-> IF op = "set" THEN Serialize(c, OwnValue(w)) ELSE NoItem]
       IN  /\ pending' = (w :> [req |-> req, client |-> c, sock |-> Socket(c, n, w),
                                phase |-> IF connected THEN "operate" ELSE "connect",
                                since |-> now,
                                timeout |-> OptionOf(c, IF connected THEN "timeout"
                                                        ELSE "connect_timeout")])
                          @@ pending
           /\ wire' = IF connected
                      THEN WireWith(Socket(c, n, w),
                                    [Queue(Socket(c, n, w)) EXCEPT !.req = Append(@, req)])
                      ELSE wire
           /\ conns' = IF connected THEN conns \cup {<<c, n>>} ELSE conns
           /\ last' = Call("send", w, "returned", "none", c)
    /\ UNCHANGED <<store, latest, down, result, sent, routing, noNode, now, dead,
                   closeCalls, stalled>>
    /\ UNCHANGED providerVars

\* The node a worker waits to connect to is reachable again: the client
\* connects and writes the request.
wire_connect(w) ==
    /\ w \in DOMAIN pending
    /\ pending[w].phase = "connect"
    /\ pending[w].sock[2] \notin down
    /\ LET p == pending[w]
       IN  /\ pending' = [pending EXCEPT ![w].phase = "operate", ![w].since = now,
                                         ![w].timeout = OptionOf(p.client, "timeout")]
           /\ wire' = WireWith(p.sock, [Queue(p.sock) EXCEPT !.req = Append(@, p.req)])
           /\ conns' = conns \cup {<<p.client, p.sock[2]>>}
           /\ last' = Call("connect", w, "returned", "none", p.client)
    /\ UNCHANGED <<store, latest, down, result, sent, routing, noNode, now, dead,
                   closeCalls, stalled>>
    /\ UNCHANGED providerVars

\* The response of a node to a request.
Response(req, item) ==
    IF req.op = "get" THEN [kind |-> "value", item |-> item]
    ELSE IF req.op = "set" THEN [kind |-> "stored", item |-> NoItem]
    ELSE [kind |-> IF item = NoItem THEN "not_found" ELSE "deleted", item |-> NoItem]

\* A node that is reachable and not stalled takes the oldest request of a
\* socket, applies it and writes the response.
wire_serve(sock) ==
    /\ sock \in DOMAIN wire
    /\ wire[sock].req # <<>>
    /\ sock[2] \notin down \cup stalled
    /\ LET req == Head(wire[sock].req)
           n == sock[2]
           k == req.key
       IN  /\ store' = IF req.op = "set" THEN [store EXCEPT ![n][k] = req.item]
                       ELSE IF req.op = "delete" THEN [store EXCEPT ![n][k] = NoItem]
                       ELSE store
           /\ latest' = IF req.op = "set" THEN [latest EXCEPT ![k] = req.value]
                        ELSE IF req.op = "delete" THEN [latest EXCEPT ![k] = Absent]
                        ELSE latest
           /\ wire' = [wire EXCEPT ![sock] =
                          [req |-> Tail(@.req),
                           rsp |-> Append(@.rsp, Response(req, store[n][k]))]]
           /\ last' = Call("serve", NoWorker, "returned", "none", NoClient)
    /\ UNCHANGED <<down, conns, result, sent, routing, noNode, now, dead, closeCalls,
                   pending, stalled>>
    /\ UNCHANGED providerVars

\* What the client makes of a response: the value of a get, whether a set or
\* a delete took effect.
Received(c, op, rsp) ==
    IF op = "get" THEN (IF rsp.item = NoItem THEN None ELSE Deserialize(c, rsp.item))
    ELSE IF op = "set" THEN (IF rsp.kind = "stored" THEN "True" ELSE "False")
    ELSE (IF rsp.kind = "deleted" THEN "True" ELSE "False")

\* The worker reads the next response on its socket, and its operation
\* returns.
wire_recv(w) ==
    /\ w \in DOMAIN pending
    /\ pending[w].phase = "operate"
    /\ Queue(pending[w].sock).rsp # <<>>
    /\ LET p == pending[w]
           q == Queue(p.sock)
       IN  /\ result' = Result({p.req.key}, Received(p.client, p.req.op, Head(q.rsp)))
           /\ wire' = WireWith(p.sock, [q EXCEPT !.rsp = Tail(@)])
           /\ pending' = Pop(pending, w)
           /\ last' = Call(p.req.op, w, "returned", "none", p.client)
    /\ UNCHANGED <<store, latest, down, conns, sent, routing, noNode, now, dead,
                   closeCalls, stalled>>
    /\ UNCHANGED providerVars

\* The timeout the request carries has run out: the client closes the socket
\* and the operation ends in a TransportError, suppressed or raised.
wire_timeout(w) ==
    /\ w \in DOMAIN pending
    /\ Expired(pending[w])
    /\ LET p == pending[w]
       IN  /\ result' = CacheResult(p.client, {p.req.key}, "TransportError",
                                    IF p.req.op = "get" THEN None ELSE "False", None)
           /\ wire' = WireWith(p.sock, EmptyQueue)
           /\ conns' = conns \ {<<p.client, p.sock[2]>>}
           /\ pending' = Pop(pending, w)
           /\ last' = CacheCall(p.req.op, w, p.client, "TransportError")
    /\ UNCHANGED <<store, latest, down, sent, routing, noNode, now, dead, closeCalls,
                   stalled>>
    /\ UNCHANGED providerVars

\* A node stops answering while it stays reachable, and answers again.
stall(n) ==
    /\ n \in (DOMAIN store) \ stalled
    /\ stalled' = stalled \cup {n}
    /\ last' = Call("stall", NoWorker, "returned", "none", NoClient)
    /\ UNCHANGED <<store, latest, down, conns, result, sent, routing, noNode, now, dead,
                   closeCalls, pending, wire>>
    /\ UNCHANGED providerVars

unstall(n) ==
    /\ n \in stalled
    /\ stalled' = stalled \ {n}
    /\ last' = Call("unstall", NoWorker, "returned", "none", NoClient)
    /\ UNCHANGED <<store, latest, down, conns, result, sent, routing, noNode, now, dead,
                   closeCalls, pending, wire>>
    /\ UNCHANGED providerVars

\* The mappings set_many is called with.
Mappings == UNION {[ks -> Values] : ks \in (SUBSET Keys) \ {{}}}

\* Two nodes: h:1 and h:10.
CacheConfig == << <<"h", ":", "1">>, <<"h", ":", "1", "0">> >>

CacheInit == InitWith({CacheConfig}, {NoAuth}, {NoOptions, [ignore_exc |-> "False"]})

\* nameko acquires once per worker context, and the worker uses the client
\* while it is bound.
CacheNext ==
    \/ setup
    \/ \E w \in Workers : w \notin DOMAIN clients /\ get_dependency(w)
    \/ \E w \in Workers, k \in Keys, v \in Values : cache_set(w, k, v)
    \/ \E w \in Workers, k \in Keys : cache_get(w, k)
    \/ \E w \in Workers, k \in Keys : cache_delete(w, k)
    \/ \E w \in Workers, ks \in SUBSET Keys : cache_get_many(w, ks)
    \/ \E n \in DOMAIN store : node_fail(n)
    \/ \E n \in DOMAIN store : node_recover(n)

CacheSpec == CacheInit /\ [][CacheNext]_vars

----------------------------------------------------------------------------
(* Batched writes: one unit of work writes with set_many and reads with    *)
(* get, against the same cluster.                                           *)

BatchNext ==
    \/ setup
    \/ "w1" \notin DOMAIN clients /\ get_dependency("w1")
    \/ \E m \in Mappings : cache_set_many("w1", m)
    \/ \E k \in Keys : cache_get("w1", k)
    \/ \E n \in DOMAIN store : node_fail(n)
    \/ \E n \in DOMAIN store : node_recover(n)

BatchSpec == CacheInit /\ [][BatchNext]_vars

----------------------------------------------------------------------------
(* Bulk teardown: the workers connect by reading, and close with           *)
(* disconnect_all.                                                          *)

\* The connections the client of worker w owns.
Owned(w) == IF w \in DOMAIN clients THEN {p \in conns : p[1] = clients[w]} ELSE {}

CloseNext ==
    \/ setup
    \/ \E w \in Workers : w \notin DOMAIN clients /\ get_dependency(w)
    \/ \E w \in Workers, k \in Keys : cache_get(w, k)
    \/ \E w \in Workers :
          \E order \in Orders(Owned(w)), raising \in SUBSET Owned(w) :
             disconnect_all(w, order, raising)

CloseSpec == CacheInit /\ [][CloseNext]_vars

---------------------------------------------------------------------------------------------------------------------------------------------------
(* The ring of one client over time: its nodes are marked dead for a       *)
(* window and come back, while the unit of work reads and writes.          *)

RingNext ==
    \/ setup
    \/ "w1" \notin DOMAIN clients /\ get_dependency("w1")
    \/ \E n \in DOMAIN store, T \in 1..MaxWindow : mark_dead("w1", n, T)
    \/ \E n \in DOMAIN store : mark_alive("w1", n)
    \/ tick
    \/ \E k \in Keys : cache_get("w1", k)
    \/ cache_set("w1", "a", "1")

RingSpec == CacheInit /\ [][RingNext]_vars

----------------------------------------------------------------------------
(* A service that writes through its client while an independent client of  *)
(* the same nodes reads: worker w1 sets, deletes and reads, w2 only reads.  *)

\* The shapes a value is stored in: None, the empty string, a unicode
\* string and a nested composite structure.
RoundTripValues == {None, EmptyText, UnicodeText, Composite}

RoundTripNext ==
    \/ setup
    \/ \E w \in {"w1", "w2"} : w \notin DOMAIN clients /\ get_dependency(w)
    \/ \E k \in Keys, v \in RoundTripValues : cache_set("w1", k, v)
    \/ \E k \in Keys : cache_delete("w1", k)
    \/ \E w \in {"w1", "w2"}, k \in Keys : cache_get(w, k)
    \/ \E n \in DOMAIN store : node_fail(n)
    \/ \E n \in DOMAIN store : node_recover(n)

RoundTripSpec == CacheInit /\ [][RoundTripNext]_vars

----------------------------------------------------------------------------
(* A counter the units of work share: each sets, increments, decrements    *)
(* and reads it through its own client.                                    *)

CounterNext ==
    \/ setup
    \/ \E w \in Workers : w \notin DOMAIN clients /\ get_dependency(w)
    \/ \E w \in Workers, n \in Ints : cache_set(w, "a", n)
    \/ \E w \in Workers, d \in 1..MaxDelta : cache_incr(w, "a", d)
    \/ \E w \in Workers, d \in 1..MaxDelta : cache_decr(w, "a", d)
    \/ \E w \in Workers : cache_get(w, "a")
    \/ \E w \in Workers : cache_delete(w, "a")

CounterSpec == CacheInit /\ [][CounterNext]_vars

----------------------------------------------------------------------------
(* Units of work running at once, each on its own key: an operation is a    *)
(* request written to a socket, served by the node and read back, and the   *)
(* steps of the workers interleave.                                         *)

\* One node, so that every key is routed to it.
WireConfig == << <<"h">> >>

WireInit == InitWith({WireConfig}, {NoAuth}, {NoOptions, [use_pooling |-> "False"]})

WireNext ==
    \/ setup
    \/ \E w \in Workers : w \notin DOMAIN clients /\ get_dependency(w)
    \/ \E w \in Workers : w \in DOMAIN clients /\ w \notin DOMAIN pending
                             /\ worker_teardown(w, FALSE)
    \/ \E w \in Workers, op \in {"set", "get", "delete"} : wire_send(w, op)
    \/ \E sock \in DOMAIN wire : wire_serve(sock)
    \/ \E w \in Workers : wire_recv(w)

WireSpec == WireInit /\ [][WireNext]_vars

----------------------------------------------------------------------------
(* One unit of work against a node that stalls or is unreachable, for as    *)
(* long as the timeouts of its client allow.                                *)

StallInit ==
    InitWith({WireConfig}, {NoAuth},
             {NoOptions, [ignore_exc |-> "False"], [timeout |-> None],
              [connect_timeout |-> None]})

StallNext ==
    \/ setup
    \/ "w1" \notin DOMAIN clients /\ get_dependency("w1")
    \/ \E op \in {"set", "get", "delete"} : wire_send("w1", op)
    \/ wire_connect("w1")
    \/ \E sock \in DOMAIN wire : wire_serve(sock)
    \/ wire_recv("w1")
    \/ wire_timeout("w1")
    \/ \E n \in DOMAIN store : stall(n)
    \/ \E n \in DOMAIN store : unstall(n)
    \/ \E n \in DOMAIN store : node_fail(n)
    \/ \E n \in DOMAIN store : node_recover(n)
    \/ tick

StallSpec == StallInit /\ [][StallNext]_vars

----------------------------------------------------------------------------
(* Membership changes of a ring of three nodes: nodes leave and join the   *)
(* live set while the unit of work reads.                                  *)

\* Three nodes: h:1, h:10 and h (at the default port).
RemapConfig == << <<"h", ":", "1">>, <<"h", ":", "1", "0">>, <<"h">> >>

RemapInit == InitWith({RemapConfig}, {NoAuth}, {NoOptions, [ignore_exc |-> "False"]})

RemapNext ==
    \/ setup
    \/ "w1" \notin DOMAIN clients /\ get_dependency("w1")
    \/ \E n \in DOMAIN store, T \in 1..MaxWindow : mark_dead("w1", n, T)
    \/ \E n \in DOMAIN store : mark_alive("w1", n)
    \/ \E k \in Keys : cache_get("w1", k)

RemapSpec == RemapInit /\ [][RemapNext]_vars

----------------------------------------------------------------------------
(* Properties of the provider's lifecycle, checked under Spec *)

\* The teardown methods invoked on client c so far, quit and disconnect_all.
TeardownCalls(c) == methodCalls[c].quit + methodCalls[c].disconnect_all

\* C1: once worker_teardown(w) has returned, w is no key of self.clients,
\* whatever was acquired or released for other worker contexts before.
C1_TeardownRemovesBinding ==
    (last.op = "worker_teardown" /\ last.outcome = "returned")
        => last.w \notin DOMAIN clients

\* A teardown that released a bound client while another worker context is
\* still bound.
C1_Witness ==
    /\ last.op = "worker_teardown"
    /\ last.outcome = "returned"
    /\ last.ret # NoClient
    /\ \E w2 \in Workers \ {last.w} : w2 \in DOMAIN clients

\* C2: worker_teardown(w) of a bound worker context invokes disconnect_all
\* of the client bound to w exactly once, and of no other client.
C2_TeardownDisconnectsOnce ==
    [][ \A w \in Workers :
          (last'.op = "worker_teardown" /\ last'.w = w /\ w \in DOMAIN clients)
            => /\ methodCalls'[clients[w]].disconnect_all
                    = methodCalls[clients[w]].disconnect_all + 1
               /\ \A c \in DOMAIN methodCalls \ {clients[w]} :
                    methodCalls'[c].disconnect_all = methodCalls[c].disconnect_all
      ]_vars

\* C3: whenever get_dependency(w) has returned, what it returned is a client
\* (not None) that _get_client built, and self.clients maps w to that client.
C3_AcquireBindsReturnedClient ==
    (last.op = "get_dependency" /\ last.outcome = "returned")
        => /\ configured
           /\ last.ret # NoClient
           /\ last.ret \in DOMAIN built
           /\ last.w \in DOMAIN clients
           /\ clients[last.w] = last.ret

\* get_dependency has returned a second client while the first is bound.
C3_Witness ==
    /\ last.op = "get_dependency"
    /\ last.outcome = "returned"
    /\ last.ret = 2
    /\ \E w2 \in Workers \ {last.w} : w2 \in DOMAIN clients /\ clients[w2] = 1

\* C4: worker_teardown(w) of a worker context with no entry returns without
\* an error, leaves self.clients as it was and invokes no client's teardown.
C4_TeardownOfUnboundIsNoOp ==
    [][ (last'.op = "worker_teardown" /\ last'.w \notin DOMAIN clients)
          => /\ last'.outcome = "returned"
             /\ clients' = clients
             /\ methodCalls' = methodCalls
             /\ built' = built
      ]_vars

\* A teardown found no entry, once clients had been built and one is bound.
C4_Witness ==
    /\ last.op = "worker_teardown"
    /\ last.outcome = "returned"
    /\ last.ret = NoClient
    /\ clients # <<>>

\* C5: worker_teardown(w) right after worker_teardown(w) changes nothing of
\* the provider: the table, the clients and their teardown counts stay as
\* the first call left them, and the second call tears no client down.
C5_TeardownIdempotent ==
    [][ (last.op = "worker_teardown" /\ last'.op = "worker_teardown"
            /\ last'.w = last.w)
          => /\ clients' = clients
             /\ methodCalls' = methodCalls
             /\ built' = built
             /\ <<config, configured, uris, options, user, password>>'
                    = <<config, configured, uris, options, user, password>>
             /\ last'.ret = NoClient
      ]_vars

\* The second teardown of w has found nothing, and the client that was
\* bound to w has been torn down once.
C5_Witness ==
    /\ last.op = "worker_teardown"
    /\ last.ret = NoClient
    /\ \E c \in DOMAIN built :
          built[c].owner = last.w /\ TeardownCalls(c) = 1

\* Every worker context that acquired a client is alive and has no entry:
\* each has been torn down since it last acquired.
AllTornDown ==
    \A c \in DOMAIN built :
        built[c].owner \notin DOMAIN clients /\ built[c].owner \notin reclaimed

\* C6: once every worker context that acquired a client has been torn down,
\* every client get_dependency built has had its teardown invoked, also when
\* get_dependency was called twice for a worker context before its teardown.
C6_NoClientLeaked ==
    AllTornDown => \A c \in DOMAIN built : TeardownCalls(c) >= 1

----------------------------------------------------------------------------
(* Properties of the address parser, checked under ParseSpec *)

\* _get_client() ran on the configured URI list (setup had been called).
ParsedUris == last.op = "_get_client" /\ last.exc # "AttributeError"

\* _get_client() returned a client; Servers is the list it was built with.
ParseReturned == ParsedUris /\ last.outcome = "returned"
Servers == built[last.ret].servers

HasSeparator(s) == \E i \in DOMAIN s : s[i] = ":"

\* pair is s split at its last ':': the host is all that precedes it, the
\* port the integer value of all that follows it.
IsSplitAtLastSeparator(s, pair) ==
    \E k \in DOMAIN s :
        /\ s[k] = ":"
        /\ \A j \in (k + 1)..Len(s) : s[j] # ":"
        /\ IsIntLiteral(SubSeq(s, k + 1, Len(s)))
        /\ pair = <<SubSeq(s, 1, k - 1), IntValue(SubSeq(s, k + 1, Len(s)))>>

\* What follows the last ':' of s is an int() literal.
PortIsInt(s) ==
    \E k \in DOMAIN s :
        /\ s[k] = ":"
        /\ \A j \in (k + 1)..Len(s) : s[j] # ":"
        /\ IsIntLiteral(SubSeq(s, k + 1, Len(s)))

\* C7: every address string with a ':' is parsed to (host, int(port)), split
\* at its last ':', so that the host may itself contain ':'; parsing returns
\* whenever int() accepts what follows the last ':' of each such string.
C7_SplitsAtLastSeparator ==
    /\ ParseReturned =>
         \A i \in DOMAIN uris :
            HasSeparator(uris[i]) =>
                /\ i \in DOMAIN Servers
                /\ IsSplitAtLastSeparator(uris[i], Servers[i])
    /\ (ParsedUris /\ \A i \in DOMAIN uris :
                        HasSeparator(uris[i]) => PortIsInt(uris[i]))
         => last.outcome = "returned"

\* An address whose host contains ':' has been parsed.
C7_Witness ==
    /\ ParseReturned
    /\ \E i \in DOMAIN uris :
          /\ i \in DOMAIN Servers
          /\ HasSeparator(Servers[i][1])
          /\ Servers[i][2] = 1

\* C8: every address string without ':' is parsed to (s, 11211), and such a
\* string never makes parsing fail.
C8_DefaultPort ==
    /\ ParseReturned =>
         \A i \in DOMAIN uris :
            ~HasSeparator(uris[i]) =>
                i \in DOMAIN Servers /\ Servers[i] = <<uris[i], 11211>>
    /\ (ParsedUris /\ \A i \in DOMAIN uris : ~HasSeparator(uris[i]))
         => last.outcome = "returned"

\* A list of two addresses without ':', a digit string among them, has been
\* parsed.
C8_Witness ==
    /\ ParseReturned
    /\ Len(uris) = 2
    /\ \A i \in DOMAIN uris : ~HasSeparator(uris[i])
    /\ \E i \in DOMAIN uris : uris[i] = <<"1", "0">>

\* C9: the parsed list has the length of the URI list and its i-th pair is
\* the parse of the i-th string; the empty list parses to the empty list.
C9_ElementWiseInOrder ==
    /\ ParseReturned =>
         /\ Len(Servers) = Len(uris)
         /\ \A i \in DOMAIN uris :
               /\ ParseUri(uris[i]).ok
               /\ i \in DOMAIN Servers
               /\ Servers[i] = <<ParseUri(uris[i]).host, ParseUri(uris[i]).port>>
    /\ (ParsedUris /\ uris = <<>>) => (last.outcome = "returned" /\ Servers = <<>>)

\* A list of two addresses that parse to different pairs has been parsed.
C9_Witness ==
    /\ ParseReturned
    /\ Len(uris) = 2
    /\ Len(Servers) = 2
    /\ Servers[1][1] # Servers[2][1]
    /\ Servers[1][2] # Servers[2][2]

C11_MalformedPortFails ==
    (ParsedUris /\ \E i \in DOMAIN uris :
                      HasSeparator(uris[i]) /\ ~PortIsInt(uris[i]))
        => /\ last.outcome = "raised"
           /\ last.exc = "ValueError"
           /\ last.ret = NoClient
           /\ built = <<>>

\* _get_client has raised on a list that holds 'h:', after an address that
\* parses.
C11_Witness ==
    /\ ParsedUris
    /\ last.exc = "ValueError"
    /\ Len(uris) = 2
    /\ uris[1] = <<"h">>
    /\ uris[2] = <<"h", ":">>

\* C12: every (host, port) pair parsing produces has a positive port.
C12_PortPositive ==
    ParseReturned => \A i \in DOMAIN Servers : Servers[i][2] > 0

----------------------------------------------------------------------------
(* Properties of configuration and shutdown, checked under Spec *)

\* The configured URI list holds an address the parser rejects.
MalformedConfig == \E i \in DOMAIN config : ~ParseUri(config[i]).ok

\* C13: with a malformed address in the configured list setup fails, so the
\* provider is never configured and get_dependency is never where the
\* error first appears.
C13_BadUriFatalAtSetup ==
    MalformedConfig
        => /\ ~configured
           /\ ~(last.op = "get_dependency" /\ last.exc = "ValueError")

\* The defaults, as the documentation of the options gives them.
C14_Defaults ==
    [ serializer |-> "python_memcache_serializer",
      deserializer |-> "python_memcache_deserializer",
      connect_timeout |-> "0.05",
      timeout |-> "0.05",
      no_delay |-> "True",
      ignore_exc |-> "True",
      retry_attempts |-> "1",
      dead_timeout |-> "5",
      use_pooling |-> "True" ]

\* C14: every client is built with the caller's value for each key the
\* caller supplied, the default for every other default key, and no other
\* key.
C14_OptionsMerged ==
    \A c \in DOMAIN built :
        /\ DOMAIN built[c].options = (DOMAIN C14_Defaults) \cup (DOMAIN options)
        /\ \A k \in DOMAIN options :
              k \in DOMAIN built[c].options /\ built[c].options[k] = options[k]
        /\ \A k \in (DOMAIN C14_Defaults) \ (DOMAIN options) :
              k \in DOMAIN built[c].options
                 /\ built[c].options[k] = C14_Defaults[k]

\* A client has been built by a provider that overrides a default and passes
\* a key that is no default.
C14_Witness ==
    /\ built # <<>>
    /\ "timeout" \in DOMAIN options
    /\ "max_pool_size" \in DOMAIN options

\* C16: setup stores the configured user and password (None when absent),
\* and the servers and options of every client are those the URI list and
\* the caller's options give, whatever the credentials are.
C16_CredentialsInert ==
    /\ configured => (user = configAuth.user /\ password = configAuth.password)
    /\ \A c \in DOMAIN built :
          /\ built[c].options = Update(C14_Defaults, options)
          /\ built[c].servers = ParseServers(uris, <<>>).servers

\* A client has been built by a provider configured with both credentials.
C16_Witness ==
    /\ built # <<>>
    /\ user = "testuser"
    /\ password = "testpass"

\* C17: once the provider is stopped, get_dependency returns no client and
\* adds no entry to the tracking table.
C17_NoAcquireAfterStop ==
    (stopped /\ last.op = "get_dependency")
        => (last.outcome # "returned" /\ last.w \notin DOMAIN clients)

----------------------------------------------------------------------------
(* Properties of the clients in use, checked under CacheSpec and BatchSpec *)

CacheOps == {"set", "get", "delete", "get_many", "set_many"}

\* The most recent call was a cache operation; its client routes key k to a
\* node that is unreachable.
OnDownNode(k) == Route(last.ret, k) \in down

\* The value stored under k on the node the client of the last call routes
\* k to.
Stored(k) ==
    LET item == store[Route(last.ret, k)][k]
    IN  IF item = NoItem THEN Absent ELSE Deserialize(last.ret, item)

\* C15: on a client of a provider that does not override ignore_exc, no
\* cache operation raises, whichever nodes are unreachable: get on an
\* unreachable node gives None, set and delete give false, and get_many
\* leaves out the keys of unreachable nodes.
C15_DefaultNeverRaises ==
    ("ignore_exc" \notin DOMAIN options /\ last.op \in CacheOps)
        => /\ last.outcome = "returned"
           /\ last.op = "get" =>
                \A k \in result.keys : OnDownNode(k) => result.value = None
           /\ last.op \in {"set", "delete"} =>
                \A k \in result.keys : OnDownNode(k) => result.value = "False"
           /\ last.op = "get_many" =>
                \A k \in result.keys : OnDownNode(k) => k \notin DOMAIN result.value

\* With default options and every node unreachable, a get of a key that is
\* stored has returned.
C15_Witness ==
    /\ "ignore_exc" \notin DOMAIN options
    /\ last.op = "get"
    /\ last.outcome = "returned"
    /\ down = DOMAIN store
    /\ \E k \in result.keys : Stored(k) = "1"

\* C18: building a client connects to nothing and never fails on an
\* unreachable node; a connection of a client to a node appears only in a
\* cache operation of that client on a key routed to that node.
C18_ConnectionsLazy ==
    [][ /\ last'.op = "get_dependency" =>
             /\ last'.exc # "TransportError"
             /\ conns' = conns
             /\ \A p \in conns' : p[1] # last'.ret
        /\ \A p \in conns' \ conns :
             /\ last'.op \in CacheOps
             /\ last'.ret = p[1]
             /\ \E k \in result'.keys : Route(p[1], k) = p[2]
      ]_vars

\* A client has been built while every node was unreachable, and another
\* client had connected before.
C18_Witness ==
    /\ last.op = "get_dependency"
    /\ last.outcome = "returned"
    /\ last.ret = 2
    /\ down = DOMAIN store

\* A client has connected to a node by its first operation on it.
C18_WitnessConnected ==
    /\ last.op \in CacheOps
    /\ conns = {<<last.ret, 2>>}

\* C19: with the nodes of the requested keys reachable, get_many returns a
\* mapping whose keys are exactly the requested keys that are stored with a
\* value other than a boolean false, each mapped to its stored value.
C19_GetManyOmitsFalseAndAbsent ==
    (last.op = "get_many" /\ \A k \in result.keys : ~OnDownNode(k))
        => /\ last.outcome = "returned"
           /\ DOMAIN result.value
                = {k \in result.keys : Stored(k) # Absent /\ Stored(k) # "False"}
           /\ \A k \in DOMAIN result.value : result.value[k] = Stored(k)

\* get_many of a key that stores 1 and a key that stores false has returned
\* the first alone.
C19_Witness ==
    /\ last.op = "get_many"
    /\ down = {}
    /\ result.keys = {"a", "b"}
    /\ Stored("a") = "1"
    /\ Stored("b") = "False"
    /\ DOMAIN result.value = {"a"}

\* What get_many returns when the nodes that fail are left out: the keys of
\* the reachable nodes, as without a failure.
IsolatedResult ==
    /\ \A k \in result.keys : OnDownNode(k) => k \notin DOMAIN result.value
    /\ \A k \in result.keys :
          (~OnDownNode(k) /\ Stored(k) # Absent /\ Stored(k) # "False")
             => (k \in DOMAIN result.value /\ result.value[k] = Stored(k))

\* C20 as stated: whenever get_many meets a failed node, it returns, without
\* the keys of the failed nodes and with the keys of the healthy ones.
C20_BatchFailureIsolated ==
    last.op = "get_many" => (last.outcome = "returned" /\ IsolatedResult)

\* C20, amended: that holds on the clients of a provider that does not
\* override ignore_exc.
C20_BatchFailureIsolatedWhenSuppressed ==
    (last.op = "get_many" /\ "ignore_exc" \notin DOMAIN options)
        => (last.outcome = "returned" /\ IsolatedResult)

\* get_many over two nodes, one of them unreachable, has returned the stored
\* key of the other.
C20_Witness ==
    /\ last.op = "get_many"
    /\ "ignore_exc" \notin DOMAIN options
    /\ result.keys = {"a", "b"}
    /\ OnDownNode("b")
    /\ ~OnDownNode("a")
    /\ Stored("b") = "1"
    /\ DOMAIN result.value = {"a"}

\* C21: set_many returns true only when every partition was written; when a
\* node it goes to is unreachable the call reports failure (false, or the
\* error when suppression is off), and still every key routed to a
\* reachable node is stored with the value sent and read back by get.
C21_SetManyPartial ==
    last.op = "set_many"
        => /\ (last.outcome = "returned" /\ result.value = "True")
                => /\ routing.nodes \cap down = {}
                   /\ \A k \in DOMAIN sent : Stored(k) = sent[k]
           /\ routing.nodes \cap down # {}
                => (last.outcome = "raised" \/ result.value = "False")
           /\ \A k \in DOMAIN sent : ~OnDownNode(k) => Stored(k) = sent[k]

\* set_many over two nodes, one of them unreachable, has reported failure
\* and stored the key of the other, which held another value before.
C21_Witness ==
    /\ last.op = "set_many"
    /\ DOMAIN sent = {"a", "b"}
    /\ OnDownNode("b")
    /\ ~OnDownNode("a")
    /\ result.value = "False"
    /\ Stored("a") = "False"
    /\ Stored("b") = "1"
    /\ sent["b"] = "False"

\* C22: disconnect_all calls close() exactly once on every connection its
\* client owns, in whatever order it meets them and whichever of them raise
\* on close, and touches no connection of another client.
C22_DisconnectAllClosesEach ==
    [][ last'.op = "disconnect_all" =>
          /\ \A p \in conns : p[1] = last'.ret =>
                (p \in DOMAIN closeCalls' /\ closeCalls'[p] = 1 /\ p \notin conns')
          /\ \A p \in conns : p[1] # last'.ret => p \in conns'
      ]_vars

\* disconnect_all has closed both connections of a client, one of which
\* raised on close, while another client holds a connection.
C22_Witness ==
    /\ last.op = "disconnect_all"
    /\ last.exc = "CloseError"
    /\ Cardinality(DOMAIN closeCalls) = 2
    /\ \A p \in DOMAIN closeCalls : closeCalls[p] = 1
    /\ \E p \in conns : p[1] # last.ret

\* The nodes the ring of client c has an entry for whose deadline lies ahead.
InDeadWindow(c) == {n \in DOMAIN built[c].servers :
                       \E d \in dead : d[1] = c /\ d[2] = n /\ now < d[3]}

\* The node a key of client c goes to when every node of the ring is live.
Home(c, k) == RouteHash(built[c].ring, DOMAIN built[c].servers, KeyHash(k))

\* C24: an operation is never routed to a node marked dead whose deadline
\* lies ahead, and a key whose node was never marked dead, or whose node's
\* deadline has passed, is routed to that node.
C24_DeadWindow ==
    last.op \in {"get", "set"}
        => /\ routing.nodes \cap InDeadWindow(last.ret) = {}
           /\ \A k \in result.keys :
                 Home(last.ret, k) \notin InDeadWindow(last.ret)
                     => routing.nodes = {Home(last.ret, k)}

\* A get went to the node of its key after that node's deadline had passed,
\* while the other node was inside its window.
C24_Witness ==
    /\ last.op = "get"
    /\ result.keys = {"a"}
    /\ \E d \in dead : d[1] = last.ret /\ d[2] = Home(last.ret, "a") /\ d[3] <= now
    /\ routing.nodes = {Home(last.ret, "a")}
    /\ InDeadWindow(last.ret) # {}

\* C25: with every node of the ring inside its dead window an operation
\* fails with NoAvailableNode and reaches no node; with a node outside its
\* window the operation is routed and served, also by a client that has met
\* NoAvailableNode before.
C25_NoAvailableNodeNotFatal ==
    last.op \in {"get", "set"}
        => IF InDeadWindow(last.ret) = DOMAIN built[last.ret].servers
           THEN /\ routing = Routing({}, "NoAvailableNode")
                /\ last.ret \in noNode
                /\ last.outcome = "raised" => last.exc = "NoAvailableNode"
           ELSE /\ routing.error = NoError
                /\ routing.nodes # {}
                /\ last.outcome = "returned"
                /\ last.op = "get" =>
                      \A k \in result.keys :
                          result.value = IF Stored(k) = Absent THEN None ELSE Stored(k)

\* A client that met NoAvailableNode has read a stored value afterwards.
C25_Witness ==
    /\ last.op = "get"
    /\ last.ret \in noNode
    /\ routing.error = NoError
    /\ result.value = "1"

\* C26: when one node leaves a ring of at least two live nodes, every ring
\* position whose node stays keeps its node, so only the positions of the
\* node that left move, and some position keeps its node.
C26_RingStability ==
    [][ \A c \in DOMAIN built :
          (last'.op = "mark_dead" /\ last'.ret = c) =>
             LET ring == built[c].ring
                 before == Live(c)
                 after == Live(c)'
             IN  Cardinality(before) >= 2 =>
                    /\ \A h \in 0..(RingSize - 1) :
                          RouteHash(ring, before, h) \in after
                              => RouteHash(ring, after, h) = RouteHash(ring, before, h)
                    /\ \E h \in 0..(RingSize - 1) :
                          RouteHash(ring, after, h) = RouteHash(ring, before, h)
      ]_vars

\* One node of a ring of three has left: the key of the node that left has
\* moved, the key of a node that stays has not.
C26_Witness ==
    /\ last.op = "mark_dead"
    /\ Cardinality(DOMAIN built[last.ret].servers) = 3
    /\ Cardinality(Live(last.ret)) = 2
    /\ Home(last.ret, "b") \notin Live(last.ret)
    /\ Route(last.ret, "b") # Home(last.ret, "b")
    /\ Route(last.ret, "a") = Home(last.ret, "a")

\* C27: a get that reaches the node of its key returns the value the key was
\* last set to, whichever client reads it; None when the key was never set
\* or was deleted since. The values are None, the empty string, a unicode
\* string and a nested composite structure.
C27_RoundTrip ==
    (/\ last.op = "get"
     /\ routing.error = NoError
     /\ routing.nodes \cap down = {})
        => /\ last.outcome = "returned"
           /\ \A k \in result.keys :
                 result.value = IF latest[k] = Absent THEN None ELSE latest[k]

\* The client of w2, which writes nothing, has read the nested structure the
\* client of w1 stored, while the other key holds the unicode string.
C27_Witness ==
    /\ last.op = "get"
    /\ last.w = "w2"
    /\ "w1" \in DOMAIN clients
    /\ last.ret # clients["w1"]
    /\ result.keys = {"a"}
    /\ result.value = Composite
    /\ latest["b"] = UnicodeText

\* C28: on a key that holds an integer, incr(k, d) returns the value the key
\* held plus d and decr(k, d) that value minus d, whichever worker set or
\* counted it before; a get returns what the last set, incr or decr left.
C28_Counter ==
    [][ \A k \in result'.keys :
          latest[k] \in Ints =>
             /\ (last'.op = "incr" /\ last'.outcome = "returned")
                   => result'.value = ToString(IntOf(latest[k]) + IntOf(sent'[k]))
             /\ (last'.op = "decr" /\ last'.outcome = "returned")
                   => result'.value = ToString(IntOf(latest[k]) - IntOf(sent'[k]))
             /\ last'.op = "get" => result'.value = latest[k]
      ]_vars

\* A decr by two has brought the counter to one, while the clients of two
\* workers are connected to its node.
C28_Witness ==
    /\ last.op = "decr"
    /\ sent = ("a" :> "2")
    /\ result.value = "1"
    /\ latest["a"] = "1"
    /\ Cardinality(conns) = 2

\* C29: while the operations of the workers interleave, each worker on its
\* own key through the client the provider gave it, a get that returns a
\* value returns the value that worker set.
C29_NoInterference ==
    (last.op = "get" /\ result.value # None) => result.value = OwnValue(last.w)

\* A worker has read its own value back while a request of the other worker
\* was in flight, against a client without a pool.
C29_Witness ==
    /\ last.op = "get"
    /\ last.w = "w2"
    /\ result.value = OwnValue("w2")
    /\ "w1" \in DOMAIN pending
    /\ OptionOf(last.ret, "use_pooling") = "False"
    /\ latest["a"] = OwnValue("w1")

\* Every operation in flight has waited no longer than the span of the
\* timeouts.
C30_NoOperationBlocks ==
    \A w \in DOMAIN pending : now <= pending[w].since + 1

\* C30: when the provider was declared with no timeout option set to None,
\* an operation in flight to a stalled or unreachable node carries a timeout
\* and has waited no longer than its span.
C30_NoOperationBlocksUnderTimeouts ==
    (\A o \in {"connect_timeout", "timeout"} \cap DOMAIN options : options[o] # None)
        => \A w \in DOMAIN pending :
              /\ pending[w].timeout # None
              /\ now <= pending[w].since + 1

\* A get to a stalled node, by a client that does not suppress failures, has
\* ended with the timeout outcome after the span of the timeout.
C30_Witness ==
    /\ last.op = "get"
    /\ last.outcome = "raised"
    /\ last.exc = "TransportError"
    /\ stalled # {}
    /\ down = {}
    /\ now > 0
    /\ pending = <<>>

----------------------------------------------------------------------------
(* Properties of the tracking table self.clients, checked under Spec *)

\* C31: self.clients never holds a worker context that has been reclaimed:
\* the entry of a context reclaimed without worker_teardown vanishes with it.
C31_NoReclaimedKey ==
    \A w \in reclaimed : w \notin DOMAIN clients

\* A worker context was reclaimed while bound: its client was never torn
\* down, and the other context is still bound.
C31_Witness ==
    /\ last.op = "reclaim"
    /\ \E c \in DOMAIN built : built[c].owner = last.w /\ TeardownCalls(c) = 0
    /\ \A c \in DOMAIN built : built[c].owner = last.w => TeardownCalls(c) = 0
    /\ clients # <<>>

\* C32: starting empty, the key set of self.clients gains w on every
\* get_dependency(w) that returns, loses w on every worker_teardown(w) and
\* on the reclaim of w, and is changed by nothing else, however the calls of
\* the workers interleave.
C32_KeysAreActiveWorkers ==
    [][ DOMAIN clients' =
          IF last'.op = "get_dependency" /\ last'.outcome = "returned"
          THEN DOMAIN clients \cup {last'.w}
          ELSE IF last'.op \in {"worker_teardown", "reclaim"}
          THEN DOMAIN clients \ {last'.w}
          ELSE DOMAIN clients
      ]_vars

\* Two workers have acquired, each has been torn down, and the table is
\* empty.
C32_Witness ==
    /\ last.op = "worker_teardown"
    /\ clients = <<>>
    /\ reclaimed = {}
    /\ \A w \in Workers : \E c \in DOMAIN built :
          built[c].owner = w /\ TeardownCalls(c) = 1

\* C33: no two worker contexts of self.clients are bound to one client.
C33_NoSharedClient ==
    \A w1, w2 \in DOMAIN clients : w1 # w2 => clients[w1] # clients[w2]

\* Two worker contexts are bound, after three clients were built.
C33_Witness ==
    /\ Cardinality(DOMAIN clients) = 2
    /\ Len(built) = 3
    /\ last.op = "get_dependency"

\* C34: worker_teardown(w1) leaves every other worker context as it was: its
\* entry is neither added, removed nor rebound, and the client bound to it
\* has no teardown method invoked.
C34_TeardownFrame ==
    [][ last'.op = "worker_teardown" =>
          \A w2 \in Workers \ {last'.w} :
              /\ (w2 \in DOMAIN clients') = (w2 \in DOMAIN clients)
              /\ w2 \in DOMAIN clients =>
                    /\ clients'[w2] = clients[w2]
                    /\ methodCalls'[clients[w2]] = methodCalls[clients[w2]]
      ]_vars

\* A bound client was torn down while the other worker context stays bound
\* to a client no teardown was invoked on.
C34_Witness ==
    /\ last.op = "worker_teardown"
    /\ last.ret # NoClient
    /\ \E w2 \in (DOMAIN clients) \ {last.w} : TeardownCalls(clients[w2]) = 0

\* C35: no client that is bound in self.clients has had a teardown method
\* invoked by the provider, also when the client's quit() raised.
C35_BoundClientsNotTornDown ==
    \A w \in DOMAIN clients : TeardownCalls(clients[w]) = 0

\* quit() was invoked on a client, and raised, and its worker context is no
\* key any more while another context is bound.
C35_Witness ==
    /\ last.op = "worker_teardown"
    /\ last.outcome = "raised"
    /\ TeardownCalls(last.ret) = 1
    /\ last.w \notin DOMAIN clients
    /\ clients # <<>>

\* C36: when quit() raises inside worker_teardown(w), the error reaches the
\* caller and the table is what a successful release leaves: that before
\* the call without w. A worker_teardown(w) that follows returns and changes
\* neither the table nor any client.
C36_RaisingTeardownReleases ==
    [][ /\ (last'.op = "worker_teardown" /\ last'.outcome = "raised")
            => /\ last'.exc = "quit"
               /\ last'.w \in DOMAIN clients
               /\ clients' = Pop(clients, last'.w)
        /\ (/\ last.op = "worker_teardown" /\ last.outcome = "raised"
            /\ last'.op = "worker_teardown" /\ last'.w = last.w)
            => /\ last'.outcome = "returned"
               /\ clients' = clients
               /\ methodCalls' = methodCalls
      ]_vars

\* quit() has raised inside the teardown of the only worker context bound,
\* and the table is empty.
C36_Witness ==
    /\ last.op = "worker_teardown"
    /\ last.outcome = "raised"
    /\ last.exc = "quit"
    /\ Len(built) = 1
    /\ clients = <<>>

\* C37: a get_dependency(w) in which building the client fails raises the
\* error of the build and leaves the table and the clients built as they
\* were: w gains no entry and no entry changes.
C37_FailedBuildLeavesTable ==
    [][ (last'.op = "get_dependency" /\ last'.outcome = "raised")
          => /\ last'.exc \in {"ValueError", "AttributeError"}
             /\ last'.ret = NoClient
             /\ clients' = clients
             /\ built' = built
             /\ methodCalls' = methodCalls
      ]_vars

\* get_dependency has raised the ValueError of a port that is no integer,
\* after setup, and the worker context has no entry.
C37_Witness ==
    /\ last.op = "get_dependency"
    /\ last.outcome = "raised"
    /\ last.exc = "ValueError"
    /\ configured
    /\ last.w \notin DOMAIN clients

\* C38: get_dependency, and the _get_client it calls, changes neither the
\* caller's options, the URI list, the credentials nor the configuration,
\* and no entry of the table but that of its worker context; every client
\* built after the one setup has the same server list and the same options.
C38_BuildLeavesConfiguration ==
    [][ last'.op = "get_dependency"
          => /\ <<options, uris, user, password, config, configAuth, configured>>'
                  = <<options, uris, user, password, config, configAuth, configured>>
             /\ \A w \in (DOMAIN clients) \ {last'.w} :
                   w \in DOMAIN clients' /\ clients'[w] = clients[w]
             /\ \A c \in DOMAIN built' :
                   /\ built'[c].servers = built'[1].servers
                   /\ built'[c].options = built'[1].options
      ]_vars

\* The third client was built by a provider declared with options and
\* configured with credentials and two URIs.
C38_Witness ==
    /\ last.op = "get_dependency"
    /\ last.outcome = "returned"
    /\ Len(built) = 3
    /\ options # NoOptions
    /\ user = "testuser"
    /\ Len(uris) = 2

\* C39: while setup has not run, no client has been built and the table is
\* empty, and a get_dependency raises (self.uris does not exist) and returns
\* no client.
C39_UnconfiguredServesNoClient ==
    ~configured
        => /\ built = <<>>
           /\ clients = <<>>
           /\ last.op = "get_dependency"
                 => /\ last.outcome = "raised"
                    /\ last.exc = "AttributeError"
                    /\ last.ret = NoClient

\* get_dependency was called before setup and raised.
C39_Witness ==
    /\ ~configured
    /\ last.op = "get_dependency"
    /\ last.outcome = "raised"
    /\ last.w \notin DOMAIN clients

====
